---- MODULE Spec2Model ----
(***************************************************************************)
(* Model of the dividend-policy checker: the DART client (registry index,  *)
(* paginated disclosure search), the KRX constituent normaliser, the       *)
(* evaluator and the join performed by main.                               *)
(*                                                                         *)
(* Text is a sequence of one-character strings, so that trimming and       *)
(* substring search are computed rather than assumed.  A python dict is a  *)
(* record; a key that is missing (dict.get gives None) holds None.         *)
(***************************************************************************)
EXTENDS Integers, Sequences, FiniteSets, TLC

VARIABLES
    entrypoint,       \* the entry point being run
    pc,               \* position inside it
    corp_codes,       \* main: the parsed registry entries
    corp_index,       \* main: build_corp_index's mapping, ticker -> entry
    raw_constituents, \* main: the rows fetch_kospi200 returned
    constituents,     \* main: the normalised rows
    enriched,         \* main: the joined records
    corporations,     \* evaluate_all: its argument
    results,          \* evaluate_all: its local list of CompanyResult
    pos,              \* evaluate_all: 1-based position of the for loop
    sf,               \* search_filings: its frame (arguments, page, filings)
    ret,              \* what the entry point returned: Absent, or Some(value)
    err,              \* the exception the entry point raised (NoError if none)
    net,              \* every request sent to the listing endpoint, in order
    resps,            \* the responses received by the current search_filings call
    exit_code         \* main: Absent while running, then Some(status)

vars == <<entrypoint, pc, corp_codes, corp_index, raw_constituents, constituents, enriched,
          corporations, results, pos, sf, ret, err, net, resps, exit_code>>

\* ------------------------------------------------------------------ bounds
MaxEntries == 2
MaxRows == 2
MaxRequests == 3
MaxCorps == 3

\* ------------------------------------------------------------------ text
\* What dict.get returns for a missing key; no text equals it.
None == <<"None">>
Empty == <<>>

\* An optional value that is not text (a number, a list): Absent or Some(v).
Absent == <<>>
Some(v) == <<v>>

Whitespace == {" "}

\* python truthiness of an optional text: None and "" are falsy.
Truthy(v) == v # None /\ v # Empty

\* `a or b`
Or(a, b) == IF Truthy(a) THEN a ELSE b

RECURSIVE lstrip(_)
lstrip(s) == IF s # Empty /\ Head(s) \in Whitespace THEN lstrip(Tail(s)) ELSE s

RECURSIVE rstrip(_)
rstrip(s) ==
    IF s # Empty /\ s[Len(s)] \in Whitespace THEN rstrip(SubSeq(s, 1, Len(s) - 1)) ELSE s

\* str.strip()
Strip(s) == rstrip(lstrip(s))

\* All sequences over S of length at most n.
SeqsUpTo(S, n) == UNION {[1..k -> S] : k \in 0..n}

RECURSIVE Concat(_)
Concat(ss) == IF ss = <<>> THEN <<>> ELSE Head(ss) \o Concat(Tail(ss))

\* ------------------------------------------------- registry (dart.py)
\* download_corp_codes: each <list> element's four children, trimmed; a missing
\* child reads as "".
ParseElement(el) ==
    [corp_code |-> Strip(el.corp_code), corp_name |-> Strip(el.corp_name),
     stock_code |-> Strip(el.stock_code), modify_date |-> Strip(el.modify_date)]

download_corp_codes(elements) == [i \in 1..Len(elements) |-> ParseElement(elements[i])]

\* Faulty variants of IndexPut: the first entry of a ticker kept; the code not
\* looked at.
IndexPutFirstWins(index, entry) ==
    LET stock_code == Strip(Or(entry.stock_code, Empty))
        corp_code == Strip(Or(entry.corp_code, Empty))
    IN IF stock_code = Empty \/ corp_code = Empty \/ stock_code \in DOMAIN index
       THEN index
       ELSE (stock_code :> entry) @@ index

IndexPutNoCodeCheck(index, entry) ==
    LET stock_code == Strip(Or(entry.stock_code, Empty))
    IN IF stock_code = Empty THEN index ELSE (stock_code :> entry) @@ index

\* One pass of the loop body of build_corp_index.
IndexPut(index, entry) ==
    LET stock_code == Strip(Or(entry.stock_code, Empty))
        corp_code == Strip(Or(entry.corp_code, Empty))
    IN IF stock_code = Empty \/ corp_code = Empty
       THEN index
       ELSE (stock_code :> entry) @@ index

RECURSIVE IndexFrom(_, _)
IndexFrom(index, codes) ==
    IF codes = <<>> THEN index ELSE IndexFrom(IndexPut(index, Head(codes)), Tail(codes))

build_corp_index(codes) == IndexFrom(<<>>, codes)

\* ------------------------------------------------- constituents (krx.py)
\* One pass of the loop body of normalize_constituents: the rows it appends.
NormalizeRow(entry) ==
    LET stock_code == Or(Or(entry.ISU_SRT_CD, entry.TDD_CLSPRC), entry.CMP_CD)
        name == Or(Or(entry.ISU_ABBRV, entry.CMP_KOR), entry.KOR_SHRT_NM)
    IN IF ~Truthy(stock_code) \/ ~Truthy(name)
       THEN <<>>
       ELSE <<[stock_code |-> Strip(stock_code), name |-> Strip(name),
               market |-> Or(Or(entry.MKT_ID, entry.MKT_NM), <<"K", "O", "S", "P", "I">>)]>>

RECURSIVE normalize_constituents(_)
normalize_constituents(entries) ==
    IF entries = <<>> THEN <<>>
    ELSE NormalizeRow(Head(entries)) \o normalize_constituents(Tail(entries))

\* ------------------------------------------------- disclosure search (dart.py)
OK000 == <<"0", "0", "0">>
NoError == [type |-> "none", text |-> Empty]
ValueError == [type |-> "ValueError", text |-> <<"corp_code is required">>]
\* urlopen failing: any exception that is not a DartError.
TransportError == [type |-> "URLError", text |-> <<"urlopen">>]

START_DATE == <<"2", "1">>
END_DATE == <<"2", "4">>
API_KEY == <<"k">>

\* _get_json's status test: `status not in ("000", None)` raises.
StatusOk(status) == status \in {OK000, None}

\* f"DART error {status}: {message}", message defaulting when falsy.
DartError(data) ==
    [type |-> "DartError",
     text |-> <<"DART error ">> \o data.status \o <<": ">>
              \o Or(data.message, <<"Unexpected response">>)]

\* `data.get("list") or []`
ItemsOf(data) == IF data.list = Absent THEN <<>> ELSE data.list[1]

\* `int(data.get("total_page") or 1)`
TotalPages(data) ==
    IF data.total_page = Absent \/ data.total_page[1] = 0 THEN 1 ELSE data.total_page[1]

\* The loop's exit test, `page >= total_pages`.
\* (faulty variants: one page too many; one page only)
LastPageStrict(page, total_pages) == page > total_pages
LastPageAlways(page, total_pages) == TRUE
LastPage(page, total_pages) == page >= total_pages

\* The query parameters of one listing request (crtfc_key added by _get_json).
Params(f) ==
    [corp_code |-> f.corp_code, bgn_de |-> START_DATE, end_de |-> END_DATE,
     page_no |-> f.page, page_count |-> f.page_count,
     pblntf_detail_ty |-> IF Truthy(f.detail_types) THEN f.detail_types ELSE None,
     crtfc_key |-> API_KEY]

IdleFrame ==
    [state |-> "idle", corp_code |-> Empty, page_count |-> 0, detail_types |-> None,
     page |-> 0, filings |-> <<>>]

\* Faulty variant of SearchBegin: no argument check.
SearchBeginUnchecked(corp_code, page_count, detail_types) ==
    [state |-> "running", corp_code |-> corp_code,
     page_count |-> page_count, detail_types |-> detail_types, page |-> 1,
     filings |-> <<>>]

\* Entering search_filings: the argument check, then page = 1, filings = [].
SearchBegin(corp_code, page_count, detail_types) ==
    [state |-> IF ~Truthy(corp_code) THEN "raised" ELSE "running",
     corp_code |-> corp_code, page_count |-> page_count,
     detail_types |-> detail_types, page |-> 1, filings |-> <<>>]

\* Faulty variant of PageOutcome: a failing page ends the call with what was
\* fetched so far.
PageOutcomeKeepPartial(f, data) ==
    IF data.kind = "transport" \/ ~StatusOk(data.status)
    THEN [frame |-> [f EXCEPT !.state = "returned"], ret |-> Some(f.filings),
          err |-> NoError]
    ELSE LET filings == f.filings \o ItemsOf(data) IN
         IF LastPage(f.page, TotalPages(data))
         THEN [frame |-> [f EXCEPT !.state = "returned", !.filings = filings],
               ret |-> Some(filings), err |-> NoError]
         ELSE [frame |-> [f EXCEPT !.page = f.page + 1, !.filings = filings],
               ret |-> Absent, err |-> NoError]

\* One pass of the while loop, given what the request for f.page brought back:
\* the frame afterwards and, when the call ends, its result or its exception.
PageOutcome(f, data) ==
    IF data.kind = "transport"
    THEN [frame |-> [f EXCEPT !.state = "raised"], ret |-> Absent, err |-> TransportError]
    ELSE IF ~StatusOk(data.status)
    THEN [frame |-> [f EXCEPT !.state = "raised"], ret |-> Absent, err |-> DartError(data)]
    ELSE LET filings == f.filings \o ItemsOf(data) IN
         IF LastPage(f.page, TotalPages(data))
         THEN [frame |-> [f EXCEPT !.state = "returned", !.filings = filings],
               ret |-> Some(filings), err |-> NoError]
         ELSE [frame |-> [f EXCEPT !.page = f.page + 1, !.filings = filings],
               ret |-> Absent, err |-> NoError]

\* ------------------------------------------------- evaluator (checker.py)
\* DEFAULT_KEYWORDS, one letter standing for each Korean word:
\* d = baedang, r = gijunil, a = aek, g = gongsi / gwallyeon, j = jeonggwan,
\* b = byeongyeong; the spaced variants are keywords of their own.
DEFAULT_KEYWORDS ==
    << <<"d", "r">>, <<"d", " ", "r">>, <<"d", "a", " ", "g">>,
       <<"j", "b">>, <<"j", " ", "b">>, <<"d", " ", "g", " ", "j">> >>

keywords == DEFAULT_KEYWORDS

IsPrefix(p, s) == Len(p) <= Len(s) /\ SubSeq(s, 1, Len(p)) = p

\* python's `sub in s` for str: a scan for the first place sub occurs.
RECURSIVE Contains(_, _)
Contains(s, sub) ==
    IF IsPrefix(sub, s) THEN TRUE
    ELSE IF s = Empty THEN FALSE
    ELSE Contains(Tail(s), sub)

\* Faulty variant of matches_policy: the keyword must start the title.
matches_policy_prefix(report_name) ==
    \E i \in 1..Len(keywords) : IsPrefix(keywords[i], report_name)

\* any(keyword in report_name for keyword in self.keywords)
matches_policy(report_name) ==
    \E i \in 1..Len(keywords) : Contains(report_name, keywords[i])

\* `item.get("report_nm", "")`
TitleOf(item) == IF item.report_nm = None THEN Empty ELSE item.report_nm

KeepsItem(item) == matches_policy(TitleOf(item))

DETAIL_TYPES == <<"B001,I001">>
DefaultPageCount == 100

\* evaluate_company's result, once search_filings has returned `filings`.
CompanyResult(corp, filings) ==
    LET matches == SelectSeq(filings, KeepsItem) IN
    [corp_code |-> Or(corp.corp_code, Empty),
     corp_name |-> Or(Or(corp.corp_name, corp.name), Empty),
     stock_code |-> Or(corp.stock_code, Empty),
     has_post_dividend_provision |-> matches # <<>>,
     matching_reports |-> matches]

\* Faulty variant of OnCompanyError: the failing company is skipped.
OnCompanyErrorIsolated(e, res, p, n) ==
    IF p + 1 > n
    THEN [pc |-> "returned", results |-> res, pos |-> p + 1, ret |-> Some(res),
          err |-> NoError]
    ELSE [pc |-> "eval_next", results |-> res, pos |-> p + 1, ret |-> Absent,
          err |-> NoError]

\* evaluate_all when evaluate_company raised e for the company at position p of
\* n: nothing catches it, so the call ends with e and no list.
OnCompanyError(e, res, p, n) ==
    [pc |-> "raised", results |-> res, pos |-> p, ret |-> Absent, err |-> e]

\* evaluate_all when evaluate_company returned r for position p of n: append,
\* then the next company, or return the list after the last one.
OnCompanyDone(r, res, p, n) ==
    IF p + 1 > n
    THEN [pc |-> "returned", results |-> Append(res, r), pos |-> p + 1,
          ret |-> Some(Append(res, r)), err |-> NoError]
    ELSE [pc |-> "eval_next", results |-> Append(res, r), pos |-> p + 1,
          ret |-> Absent, err |-> NoError]

\* ------------------------------------------------- the join (main.py)
\* Faulty variant of JoinRecord: the constituent name preferred.
JoinRecordConstituentFirst(item, match) ==
    [stock_code |-> item.stock_code, name |-> item.name, market |-> item.market,
     corp_code |-> match.corp_code, corp_name |-> Or(item.name, match.corp_name)]

\* {**item, "corp_code": ..., "corp_name": match["corp_name"] or item.get("name", "")}
JoinRecord(item, match) ==
    [stock_code |-> item.stock_code, name |-> item.name, market |-> item.market,
     corp_code |-> match.corp_code,
     corp_name |-> Or(match.corp_name, IF item.name = None THEN Empty ELSE item.name)]

\* One pass of main's join loop: the records it appends.
JoinRow(item, index) ==
    IF item.stock_code \in DOMAIN index
    THEN <<JoinRecord(item, index[item.stock_code])>>
    ELSE <<>>

RECURSIVE Join(_, _)
Join(rows, index) ==
    IF rows = <<>> THEN <<>> ELSE JoinRow(Head(rows), index) \o Join(Tail(rows), index)

\* ------------------------------------------------- inputs
MODIFY_DATE == <<"2", "0", "2", "4">>

\* Registry entries as build_corp_index may be handed them directly: fields
\* missing, blank, padded.
RegistryEntries ==
    [corp_code : {None, <<" ">>, <<"A">>, <<"B">>},
     corp_name : {<<"N">>},
     stock_code : {None, Empty, <<" ">>, <<"1">>, <<" ", "1">>, <<"2">>},
     modify_date : {MODIFY_DATE}]

XmlElement(stock, code, name) ==
    [corp_code |-> code, corp_name |-> name, stock_code |-> stock,
     modify_date |-> MODIFY_DATE]

\* <list> elements of CORPCODE.xml (a missing child already read as "").
XmlElements ==
    {XmlElement(<<"1">>, <<"A">>, <<"N">>),
     XmlElement(<<" ", "1">>, <<"B">>, Empty),
     XmlElement(<<"2", " ">>, <<" ", "C">>, <<" ", "M", " ">>),
     XmlElement(Empty, <<"D">>, <<"X">>),
     XmlElement(<<"3">>, <<" ">>, <<"Y">>)}

RawRow(srt, tdd, cmp, abbrv, kor, shrt, mkt_id, mkt_nm) ==
    [ISU_SRT_CD |-> srt, TDD_CLSPRC |-> tdd, CMP_CD |-> cmp, ISU_ABBRV |-> abbrv,
     CMP_KOR |-> kor, KOR_SHRT_NM |-> shrt, MKT_ID |-> mkt_id, MKT_NM |-> mkt_nm]

TickerFields ==
    {None, Empty, <<" ">>, <<" ", "1">>} \X {None, <<"2">>} \X {None, <<"3", " ">>}

NameFields ==
    {<<None, None, None>>, <<<<" ">>, None, None>>, <<<<"n">>, None, None>>,
     <<None, <<"k">>, None>>, <<None, None, <<"s", " ">>>>, <<Empty, <<"k">>, <<"s">>>>}

MarketFields == {<<None, None>>, <<<<"S">>, None>>, <<None, <<"Q">>>>}

\* Raw KRX rows as normalize_constituents may be handed them.
RawRows ==
    {RawRow(t[1], t[2], t[3], n[1], n[2], n[3], m[1], m[2]) :
        t \in TickerFields, n \in NameFields, m \in MarketFields}

\* Raw KRX rows of a run of main.
PipelineRows ==
    {RawRow(<<"1">>, None, None, <<"n">>, None, None, None, None),
     RawRow(<<" ", "2">>, None, None, <<"m">>, None, None, <<"S">>, None),
     RawRow(<<" ">>, None, None, <<"w">>, None, None, None, None),
     RawRow(None, None, <<"3">>, None, <<"y">>, None, None, None),
     RawRow(<<"9">>, None, None, <<"z">>, None, None, None, None),
     RawRow(<<"1">>, None, None, None, None, None, None, None)}

Item(no, title) == [rcept_no |-> <<no>>, report_nm |-> title]
ItemA == Item("1", <<"j", "b", "s">>)
ItemB == Item("2", <<"s", "p">>)
ItemC == Item("3", None)
ItemD == Item("4", <<"s", "d", " ", "r">>)
ItemE == Item("5", <<"b", "j", "d">>)

JsonResponse(status, message, total_page, list) ==
    [kind |-> "json", status |-> status, message |-> message,
     total_page |-> total_page, list |-> list]

TransportFailure ==
    [kind |-> "transport", status |-> None, message |-> None, total_page |-> Absent,
     list |-> Absent]

SuccessResponses(totals, lists) ==
    {JsonResponse(st, <<"ok">>, tp, l) : st \in {None, OK000}, tp \in totals, l \in lists}

ErrorResponses(statuses, messages) ==
    {JsonResponse(st, m, Absent, Absent) : st \in statuses, m \in messages}

\* What the listing endpoint may answer to a direct search_filings call.
Responses ==
    SuccessResponses({Absent} \cup {Some(n) : n \in 0..(MaxRequests + 1)},
                     {Absent, Some(<<ItemA>>), Some(<<ItemB, ItemC>>)})
    \cup ErrorResponses({<<"0", "1", "3">>, Empty}, {None, Empty, <<"m">>})
    \cup {TransportFailure}

\* ... and to the searches evaluate_all makes.
EvalResponses ==
    {JsonResponse(OK000, <<"ok">>, tp, l) :
        tp \in {Absent, Some(2)},
        l \in {Some(<<ItemA, ItemB>>), Some(<<ItemC, ItemD, ItemE>>)}}
    \cup ErrorResponses({<<"0", "1", "3">>}, {<<"m">>})
    \cup {TransportFailure}

\* ... and to the searches of a run of main.
PipelineResponses ==
    {JsonResponse(OK000, <<"ok">>, Absent, Some(<<ItemA, ItemB>>)),
     JsonResponse(OK000, <<"ok">>, Some(2), Absent)}
    \cup ErrorResponses({<<"0", "1", "3">>}, {<<"m">>})
    \cup {TransportFailure}

Corp(code, corp_name, name, stock) ==
    [corp_code |-> code, corp_name |-> corp_name, name |-> name, stock_code |-> stock,
     market |-> None]

\* Company records as evaluate_all may be handed them.
EvalCorps ==
    {Corp(<<"A">>, <<"N">>, <<"n">>, <<"1">>),
     Corp(<<"B">>, None, <<"m">>, <<"2">>),
     Corp(None, <<"X">>, None, <<"3">>),
     Corp(Empty, None, None, None)}

PageSizes == {10, DefaultPageCount}
CorpCodeArgs == {None, Empty, <<"A">>}
DetailArgs == {None, DETAIL_TYPES}

\* ------------------------------------------------- actions
IdleVars(ep) ==
    /\ entrypoint = ep
    /\ pc = "start"
    /\ corp_codes = <<>>
    /\ corp_index = <<>>
    /\ raw_constituents = <<>>
    /\ constituents = <<>>
    /\ enriched = <<>>
    /\ corporations = <<>>
    /\ results = <<>>
    /\ pos = 0
    /\ sf = IdleFrame
    /\ ret = Absent
    /\ err = NoError
    /\ net = <<>>
    /\ resps = <<>>
    /\ exit_code = Absent

mainVars == <<corp_codes, corp_index, raw_constituents, constituents, enriched>>
evalVars == <<corporations, results, pos>>
searchVars == <<sf, net, resps>>

\* build_corp_index(codes), called on its own.
CallBuildCorpIndex ==
    /\ entrypoint = "build_corp_index" /\ pc = "start"
    /\ \E codes \in SeqsUpTo(RegistryEntries, MaxEntries) :
          /\ corp_codes' = codes
          /\ corp_index' = build_corp_index(codes)
          /\ ret' = Some(build_corp_index(codes))
    /\ pc' = "returned"
    /\ UNCHANGED <<entrypoint, raw_constituents, constituents, enriched, evalVars,
                   searchVars, err, exit_code>>

\* normalize_constituents(entries), called on its own.
CallNormalizeConstituents ==
    /\ entrypoint = "normalize_constituents" /\ pc = "start"
    /\ \E rows \in SeqsUpTo(RawRows, MaxRows) :
          /\ raw_constituents' = rows
          /\ constituents' = normalize_constituents(rows)
          /\ ret' = Some(normalize_constituents(rows))
    /\ pc' = "returned"
    /\ UNCHANGED <<entrypoint, corp_codes, corp_index, enriched, evalVars, searchVars,
                   err, exit_code>>

\* search_filings(corp_code, ..., detail_types, page_count), called on its own:
\* up to the first request.
CallSearchFilings ==
    /\ entrypoint = "search_filings" /\ pc = "start"
    /\ \E corp_code \in CorpCodeArgs, page_count \in PageSizes, detail \in DetailArgs :
          LET f == SearchBegin(corp_code, page_count, detail) IN
          /\ sf' = f
          /\ IF f.state = "raised"
             THEN pc' = "raised" /\ err' = ValueError
             ELSE pc' = "search" /\ err' = err
    /\ UNCHANGED <<entrypoint, mainVars, evalVars, ret, net, resps, exit_code>>

\* One pass of search_filings' loop: the request for the current page, its
\* response, and what the loop does with it.
SearchPage ==
    /\ entrypoint = "search_filings" /\ pc = "search"
    /\ Len(resps) < MaxRequests
    /\ \E data \in Responses :
          LET o == PageOutcome(sf, data) IN
          /\ net' = Append(net, Params(sf))
          /\ resps' = Append(resps, data)
          /\ sf' = o.frame
          /\ ret' = o.ret
          /\ err' = o.err
          /\ pc' = IF o.frame.state = "running" THEN "search" ELSE o.frame.state
    /\ UNCHANGED <<entrypoint, mainVars, evalVars, exit_code>>

\* Entering evaluate_all with n companies: results = [], then the loop.
EvaluateAllBegin(n) ==
    IF n = 0
    THEN [pc |-> "returned", results |-> <<>>, pos |-> 1, ret |-> Some(<<>>),
          err |-> NoError]
    ELSE [pc |-> "eval_next", results |-> <<>>, pos |-> 1, ret |-> Absent,
          err |-> NoError]

\* main after evaluate_all: the summary and exit 0, or DartError caught and
\* exit 1; any other exception leaves main uncaught.
MainAfterEvaluateAll(r) ==
    IF r.pc = "returned" THEN [pc |-> "exit", exit_code |-> Some(0)]
    ELSE IF r.err.type = "DartError" THEN [pc |-> "exit", exit_code |-> Some(1)]
    ELSE [pc |-> "crashed", exit_code |-> Some(1)]

\* The state of evaluate_all after a step, handed on to main when main is
\* its caller and the call has ended.
ApplyEval(r) ==
    /\ results' = r.results
    /\ pos' = r.pos
    /\ ret' = r.ret
    /\ err' = r.err
    /\ IF entrypoint = "main" /\ r.pc \in {"returned", "raised"}
       THEN /\ pc' = MainAfterEvaluateAll(r).pc
            /\ exit_code' = MainAfterEvaluateAll(r).exit_code
       ELSE /\ pc' = r.pc
            /\ exit_code' = exit_code

\* evaluate_all(corporations), called on its own: up to the first company.
CallEvaluateAll ==
    /\ entrypoint = "evaluate_all" /\ pc = "start"
    /\ \E corps \in SeqsUpTo(EvalCorps, MaxCorps) :
          /\ corporations' = corps
          /\ ApplyEval(EvaluateAllBegin(Len(corps)))
    /\ UNCHANGED <<entrypoint, mainVars, searchVars>>

\* evaluate_company for the company at pos, up to search_filings' first
\* request: the record's fields, then search_filings' argument check.
BeginCompany ==
    /\ pc = "eval_next"
    /\ pos <= Len(corporations)
    /\ LET corp == corporations[pos]
           f == SearchBegin(Or(corp.corp_code, Empty), DefaultPageCount, DETAIL_TYPES)
       IN /\ sf' = f
          /\ resps' = <<>>
          /\ IF f.state = "raised"
             THEN ApplyEval(OnCompanyError(ValueError, results, pos, Len(corporations)))
             ELSE /\ pc' = "eval_search"
                  /\ UNCHANGED <<results, pos, ret, err, exit_code>>
    /\ UNCHANGED <<entrypoint, mainVars, corporations, net>>

ResponsesFor(ep) == IF ep = "main" THEN PipelineResponses ELSE EvalResponses

\* One pass of search_filings' loop inside evaluate_company, and, when the
\* search ends, the rest of evaluate_company and of evaluate_all's loop body.
EvalSearchPage ==
    /\ pc = "eval_search"
    /\ Len(resps) < MaxRequests
    /\ \E data \in ResponsesFor(entrypoint) :
          LET o == PageOutcome(sf, data)
              n == Len(corporations)
          IN /\ net' = Append(net, Params(sf))
             /\ resps' = Append(resps, data)
             /\ sf' = o.frame
             /\ IF o.frame.state = "running"
                THEN UNCHANGED <<pc, results, pos, ret, err, exit_code>>
                ELSE IF o.frame.state = "raised"
                THEN ApplyEval(OnCompanyError(o.err, results, pos, n))
                ELSE ApplyEval(OnCompanyDone(CompanyResult(corporations[pos], o.ret[1]),
                                             results, pos, n))
    /\ UNCHANGED <<entrypoint, mainVars, corporations>>

\* main up to the registry download: the credential check.
MainStart ==
    /\ entrypoint = "main" /\ pc = "start"
    /\ \E api_key \in {None, Empty, API_KEY} :
          IF ~Truthy(api_key)
          THEN pc' = "exit" /\ exit_code' = Some(1)
          ELSE pc' = "download" /\ exit_code' = exit_code
    /\ UNCHANGED <<entrypoint, mainVars, evalVars, searchVars, ret, err>>

\* download_corp_codes: any failure is reported and ends main with 1.
MainDownloadFails ==
    /\ entrypoint = "main" /\ pc = "download"
    /\ pc' = "exit" /\ exit_code' = Some(1)
    /\ UNCHANGED <<entrypoint, mainVars, evalVars, searchVars, ret, err>>

\* download_corp_codes and build_corp_index.
MainDownload ==
    /\ entrypoint = "main" /\ pc = "download"
    /\ \E elements \in SeqsUpTo(XmlElements, MaxEntries) :
          /\ corp_codes' = download_corp_codes(elements)
          /\ corp_index' = build_corp_index(download_corp_codes(elements))
    /\ pc' = "fetch"
    /\ UNCHANGED <<entrypoint, raw_constituents, constituents, enriched, evalVars,
                   searchVars, ret, err, exit_code>>

\* fetch_kospi200 raising KrxError: reported, main ends with 1.
MainFetchFails ==
    /\ entrypoint = "main" /\ pc = "fetch"
    /\ pc' = "exit" /\ exit_code' = Some(1)
    /\ UNCHANGED <<entrypoint, mainVars, evalVars, searchVars, ret, err>>

\* fetch_kospi200 failing in transport: only KrxError is caught, main ends
\* uncaught.
MainFetchCrashes ==
    /\ entrypoint = "main" /\ pc = "fetch"
    /\ pc' = "crashed" /\ exit_code' = Some(1) /\ err' = TransportError
    /\ UNCHANGED <<entrypoint, mainVars, evalVars, searchVars, ret>>

\* fetch_kospi200, normalize_constituents, the join, and evaluate_all up to
\* its first company.
MainFetch ==
    /\ entrypoint = "main" /\ pc = "fetch"
    /\ \E rows \in SeqsUpTo(PipelineRows, MaxRows) :
          LET normalized == normalize_constituents(rows)
              joined == Join(normalized, corp_index)
          IN /\ raw_constituents' = rows
             /\ constituents' = normalized
             /\ enriched' = joined
             /\ corporations' = joined
             /\ ApplyEval(EvaluateAllBegin(Len(joined)))
    /\ UNCHANGED <<entrypoint, corp_codes, corp_index, searchVars>>

\* ------------------------------------------------- specifications
\* build_corp_index on arbitrary registry entries.
InitIndex == IdleVars("build_corp_index")
NextIndex == CallBuildCorpIndex
SpecIndex == InitIndex /\ [][NextIndex]_vars

\* normalize_constituents on arbitrary rows.
InitNorm == IdleVars("normalize_constituents")
NextNorm == CallNormalizeConstituents
SpecNorm == InitNorm /\ [][NextNorm]_vars

\* search_filings called on its own.
InitSearch == IdleVars("search_filings")
NextSearch == CallSearchFilings \/ SearchPage
SpecSearch == InitSearch /\ [][NextSearch]_vars

\* evaluate_all called on its own.
InitEval == IdleVars("evaluate_all")
NextEval == CallEvaluateAll \/ BeginCompany \/ EvalSearchPage
SpecEval == InitEval /\ [][NextEval]_vars

\* A run of main.
Init == IdleVars("main")
Next ==
    \/ MainStart
    \/ MainDownloadFails
    \/ MainDownload
    \/ MainFetchFails
    \/ MainFetchCrashes
    \/ MainFetch
    \/ BeginCompany
    \/ EvalSearchPage
Spec == Init /\ [][Next]_vars

\* search_filings or evaluate_all, either called on its own.
InitClient == IdleVars("search_filings") \/ IdleVars("evaluate_all")
NextClient ==
    \/ CallSearchFilings
    \/ SearchPage
    \/ CallEvaluateAll
    \/ BeginCompany
    \/ EvalSearchPage
SpecClient == InitClient /\ [][NextClient]_vars

\* ------------------------------------------------- properties
Max(a, b) == IF a >= b THEN a ELSE b

\* A response that _get_json accepts / rejects, read off the response itself.
Succeeded(r) == r.kind = "json" /\ (r.status = None \/ r.status = OK000)
Rejected(r) == r.kind = "json" /\ r.status # None /\ r.status # OK000

\* The total a response declares; 0 when it declares none.
Declared(r) == IF r.total_page = Absent THEN 0 ELSE r.total_page[1]

\* The items of the responses received so far, page after page.
Fetched == Concat([i \in 1..Len(resps) |-> IF resps[i].list = Absent THEN <<>>
                                           ELSE resps[i].list[1]])

\* C1: against an upstream that answers every page with success and declares
\* total_page = N (N >= 1), search_filings requests pages 1, 2, ..., N in that
\* order, exactly N of them, and returns the N pages' items concatenated in
\* page order, whatever the page size.
C1_AllPagesInOrder ==
    \A N \in 1..(MaxRequests + 1) :
        ( /\ entrypoint = "search_filings"
          /\ resps # <<>>
          /\ \A i \in 1..Len(resps) : Succeeded(resps[i]) /\ resps[i].total_page = Some(N) )
        => /\ Len(net) = Len(resps)
           /\ Len(net) <= N
           /\ \A i \in 1..Len(net) : net[i].page_no = i
           /\ pc \in {"search", "returned"}
           /\ (pc = "returned") <=> (Len(net) = N)
           /\ pc = "returned" => ret = Some(Fetched)

C1_Witness ==
    /\ entrypoint = "search_filings" /\ pc = "returned"
    /\ Len(net) = 3
    /\ \A i \in 1..3 : Succeeded(resps[i]) /\ resps[i].total_page = Some(3)
    /\ sf.page_count = 10
    /\ ret = Some(<<ItemA, ItemB, ItemC, ItemA>>)

\* C2: a page response whose status is neither "000" nor absent ends the call
\* with a DartError carrying that status and message (a default text when the
\* message is empty or missing); it is the last request of the call, and nothing
\* fetched from earlier pages is returned.
C2_ErrorAborts ==
    \A i \in 1..Len(resps) :
        (entrypoint = "search_filings" /\ Rejected(resps[i]))
        => /\ i = Len(resps)
           /\ Len(net) = i
           /\ pc = "raised"
           /\ err.type = "DartError"
           /\ err.text = <<"DART error ">> \o resps[i].status \o <<": ">>
                          \o (IF resps[i].message \in {None, Empty}
                              THEN <<"Unexpected response">> ELSE resps[i].message)
           /\ ret = Absent

C2_Witness ==
    /\ entrypoint = "search_filings" /\ pc = "raised"
    /\ Len(resps) = 2
    /\ resps[1].list = Some(<<ItemA>>)
    /\ resps[2].status = <<"0", "1", "3">> /\ resps[2].message = <<"m">>
    /\ ret = Absent

\* C9: while every response is successful and declares at most T, the call
\* has made at most max(1, T) requests and has ended once it has made that many;
\* no page number is requested twice; a response declaring no total, or zero,
\* is the last of the call.  The loop has no ceiling of its own: it only ever
\* ends on a page whose declared total does not exceed the page number.
C9_BoundedByDeclaredTotal ==
    (entrypoint = "search_filings" /\ \A i \in 1..Len(resps) : Succeeded(resps[i]))
    => /\ \A T \in 0..(MaxRequests + 1) :
             (\A i \in 1..Len(resps) : Declared(resps[i]) <= T)
             => /\ Len(net) <= Max(1, T)
                /\ Len(net) = Max(1, T) => pc = "returned"
       /\ \A i, j \in 1..Len(net) : i # j => net[i].page_no # net[j].page_no
       /\ \A i \in 1..Len(resps) :
             Declared(resps[i]) = 0 => i = Len(resps) /\ pc = "returned"
       /\ pc = "returned" => Declared(resps[Len(resps)]) <= Len(net)
       /\ (pc = "search" /\ resps # <<>>) => Declared(resps[Len(resps)]) > Len(net)

C9_Witness ==
    /\ entrypoint = "search_filings" /\ pc = "returned"
    /\ Len(net) = 3
    /\ resps[1].total_page = Some(2)
    /\ resps[2].total_page = Some(3)
    /\ resps[3].total_page = Absent

\* The company code evaluate_company passes on for record c.
CodeOf(c) == IF c.corp_code = None THEN Empty ELSE c.corp_code

\* C7: search_filings given an empty (or missing) company code raises the
\* validation error without any request; evaluate_company given a record whose
\* corp_code is missing or empty ends with that error and no CompanyResult.
C7_EmptyCodeFailsFast ==
    /\ \A i \in 1..Len(net) : net[i].corp_code # Empty /\ net[i].corp_code # None
    /\ (entrypoint = "search_filings" /\ pc # "start" /\ sf.corp_code \in {Empty, None})
       => pc = "raised" /\ err = ValueError /\ net = <<>> /\ ret = Absent
    /\ ( /\ entrypoint = "evaluate_all"
         /\ pc \in {"eval_search", "raised", "returned"}
         /\ pos <= Len(corporations)
         /\ CodeOf(corporations[pos]) = Empty )
       => /\ pc = "raised"
          /\ err = ValueError
          /\ resps = <<>>
          /\ Len(results) = pos - 1
          /\ ret = Absent

C7_Witness ==
    /\ entrypoint = "evaluate_all" /\ pc = "raised"
    /\ pos = 2
    /\ corporations[2].corp_code = None
    /\ Len(net) > 0
    /\ err = ValueError

\* net's company codes are blocks, one non-empty block per company of `codes`,
\* in that order.
RECURSIVE Blocks(_, _)
Blocks(reqs, codes) ==
    IF codes = <<>> THEN reqs = <<>>
    ELSE \E k \in 1..Len(reqs) :
            /\ \A j \in 1..k : reqs[j].corp_code = CodeOf(Head(codes))
            /\ Blocks(SubSeq(reqs, k + 1, Len(reqs)), Tail(codes))

\* How many companies have had a request sent for them.
Requested ==
    IF pc \in {"eval_search", "raised"} /\ resps # <<>> THEN pos
    ELSE IF pc = "start" THEN 0 ELSE pos - 1

\* C3: evaluate_all takes the companies in input order; when evaluate_company
\* fails at position N the call fails with that error, no request has been made
\* for a later company, and the results of the earlier ones are not returned.
C3_AbortOnFirstFailure ==
    entrypoint = "evaluate_all"
    => /\ Blocks(net, SubSeq(corporations, 1, Requested))
       /\ \A i \in 1..Len(results) : results[i].corp_code = CodeOf(corporations[i])
       /\ pc = "raised"
          => /\ pos <= Len(corporations)
             /\ Len(results) = pos - 1
             /\ ret = Absent
             /\ sf.state = "raised"
             /\ err = IF resps = <<>> THEN ValueError
                      ELSE IF resps[Len(resps)].kind = "transport" THEN TransportError
                      ELSE [type |-> "DartError",
                            text |-> <<"DART error ">> \o resps[Len(resps)].status
                                     \o <<": ">> \o resps[Len(resps)].message]
       /\ ret # Absent => pc = "returned" /\ Len(ret[1]) = Len(corporations)

C3_Witness ==
    /\ entrypoint = "evaluate_all" /\ pc = "raised"
    /\ pos = 2 /\ Len(corporations) = 3
    /\ Len(results) = 1
    /\ err.type = "DartError"
    /\ ret = Absent

\* A title holding keyword k at offset i.
KeywordAt(title, k, i) ==
    /\ i + Len(k) <= Len(title)
    /\ \A j \in 1..Len(k) : title[i + j] = k[j]

TitleHasKeyword(item) ==
    LET title == IF item.report_nm = None THEN Empty ELSE item.report_nm IN
    \E n \in 1..Len(keywords) : \E i \in 0..Len(title) : KeywordAt(title, keywords[n], i)

MatchingPositions == {i \in 1..Len(Fetched) : TitleHasKeyword(Fetched[i])}

\* C4: for a company whose search succeeded, the CompanyResult's
\* matching_reports are the fetched items whose title holds a keyword, in fetch
\* order, and has_post_dividend_provision says whether there is one.
C4_MatchesAreKeywordTitles ==
    (entrypoint = "evaluate_all" /\ sf.state = "returned")
    => /\ Len(results) = pos - 1
       /\ pos >= 2
       /\ LET r == results[pos - 1] IN
          /\ Len(r.matching_reports) = Cardinality(MatchingPositions)
          /\ \A i \in MatchingPositions :
                r.matching_reports[Cardinality({j \in MatchingPositions : j <= i})]
                    = Fetched[i]
          /\ r.has_post_dividend_provision <=> (r.matching_reports # <<>>)

C4_Witness ==
    /\ entrypoint = "evaluate_all" /\ sf.state = "returned"
    /\ Fetched = <<ItemA, ItemB, ItemC, ItemD, ItemE>>
    /\ results[pos - 1].matching_reports = <<ItemA, ItemD>>
    /\ results[pos - 1].has_post_dividend_provision

\* C5: normalize_constituents returns no more rows than it was given, each
\* with a non-empty ticker and a non-empty name.
C5_RowsHaveTickerAndName ==
    (entrypoint = "normalize_constituents" /\ pc = "returned")
    => /\ Len(constituents) <= Len(raw_constituents)
       /\ \A i \in 1..Len(constituents) :
             constituents[i].stock_code # Empty /\ constituents[i].name # Empty

\* The ticker and code of a registry entry as the index reads them.
TickerOf(e) == IF e.stock_code = None THEN Empty ELSE Strip(e.stock_code)
CorpCodeOf(e) == IF e.corp_code = None THEN Empty ELSE Strip(e.corp_code)
Eligible(e) == TickerOf(e) # Empty /\ CorpCodeOf(e) # Empty

\* C6: build_corp_index maps no entry whose ticker or code is empty, maps
\* every ticker of an eligible entry, and maps it to the last eligible entry
\* carrying that ticker.
C6_IndexLastWins ==
    (entrypoint = "build_corp_index" /\ pc = "returned")
    => /\ \A k \in DOMAIN corp_index :
             /\ k # Empty
             /\ Truthy(corp_index[k].stock_code) /\ Truthy(corp_index[k].corp_code)
             /\ \E i \in 1..Len(corp_codes) :
                   /\ corp_index[k] = corp_codes[i]
                   /\ Eligible(corp_codes[i]) /\ TickerOf(corp_codes[i]) = k
                   /\ \A j \in (i + 1)..Len(corp_codes) :
                         ~(Eligible(corp_codes[j]) /\ TickerOf(corp_codes[j]) = k)
       /\ \A i \in 1..Len(corp_codes) :
             Eligible(corp_codes[i]) => TickerOf(corp_codes[i]) \in DOMAIN corp_index

C6_Witness ==
    /\ entrypoint = "build_corp_index" /\ pc = "returned"
    /\ Len(corp_codes) = 2
    /\ Eligible(corp_codes[1]) /\ Eligible(corp_codes[2])
    /\ TickerOf(corp_codes[1]) = TickerOf(corp_codes[2])
    /\ corp_codes[1] # corp_codes[2]
    /\ corp_index[TickerOf(corp_codes[1])] = corp_codes[2]

\* The constituents whose ticker is a key of the index.
JoinHits == {i \in 1..Len(constituents) : constituents[i].stock_code \in DOMAIN corp_index}
JoinRank(i) == Cardinality({j \in JoinHits : j <= i})

\* C8, as claimed: every constituent whose ticker is in the index yields one
\* enriched record, in constituent order, with the registry entry's code and
\* the registry entry's name; the others yield none.
C8_RegistryNameAlways ==
    /\ Len(enriched) = Cardinality(JoinHits)
    /\ \A i \in JoinHits :
          LET e == enriched[JoinRank(i)]
              m == corp_index[constituents[i].stock_code]
          IN /\ e.stock_code = constituents[i].stock_code
             /\ e.corp_code = m.corp_code
             /\ e.corp_name = m.corp_name

\* C8, amended: ... with the registry entry's code and the registry entry's
\* name when that name is not empty, the constituent's name otherwise.
C8_RegistryNameUnlessEmpty ==
    /\ Len(enriched) = Cardinality(JoinHits)
    /\ \A i \in JoinHits :
          LET e == enriched[JoinRank(i)]
              m == corp_index[constituents[i].stock_code]
          IN /\ e.stock_code = constituents[i].stock_code
             /\ e.name = constituents[i].name
             /\ e.corp_code = m.corp_code
             /\ e.corp_name = IF m.corp_name # Empty THEN m.corp_name
                               ELSE constituents[i].name

C8_Witness ==
    /\ entrypoint = "main"
    /\ Len(constituents) = 2 /\ Len(enriched) = 1
    /\ JoinHits = {2}
    /\ corp_index[constituents[2].stock_code].corp_name = Empty
    /\ enriched[1].corp_name = constituents[2].name
    /\ enriched[1].corp_code = <<"B">>

\* C10: in a run of main every enriched record has a non-empty corp_code, no
\* request carries an empty company code, and the validation error of
\* search_filings never occurs.
C10_NoEmptyCodeFromMain ==
    entrypoint = "main"
    => /\ \A i \in 1..Len(enriched) : Truthy(enriched[i].corp_code)
       /\ \A i \in 1..Len(net) : Truthy(net[i].corp_code)
       /\ sf.state # "idle" => Truthy(sf.corp_code)
       /\ err # ValueError
       /\ pc = "crashed" => err = TransportError

C10_Witness ==
    /\ entrypoint = "main"
    /\ \E i \in 1..Len(corp_codes) :
          corp_codes[i].corp_code = Empty /\ corp_codes[i].stock_code = <<"3">>
    /\ \E i \in 1..Len(constituents) : constituents[i].stock_code = <<"3">>
    /\ Len(enriched) = 1
    /\ Len(net) > 0

====
